---- MODULE Spec2Model ----
(***************************************************************************)
(* Interaction engines of grail-ui's tooltip (tooltip/tooltip.ts) and menu *)
(* (menu/menu.ts): the open/closed state cell, the show and hide timers,   *)
(* the trigger/overlay attachment lifecycle and the event wiring.          *)
(*                                                                         *)
(* One behaviour follows one widget instance: `widget` is fixed by Init    *)
(* to the factory that was called (createTooltip or createMenu).           *)
(* Every handler of the source is an operator from a program state (a      *)
(* record of the variables) to the program state it leaves behind, so that *)
(* the sequential statements of a handler compose as in the code.          *)
(***************************************************************************)
EXTENDS Integers, Sequences, FiniteSets, TLC

VARIABLES
    widget,          \* "tooltip" | "menu": which factory built the instance
    trigger,         \* "unmounted" | "mounted" | "destroyed": the trigger action
    overlayElement,  \* tooltipElement$ / overlayElement$: NULL or the element
    open,            \* open$: the OpenState cell
    showTimer,       \* [pending, delay]: createTimeout(() => open$.set(true), 0)
    hideTimer,       \* [pending, delay]: createTimeout(() => open$.set(false), 500)
    cleanup,         \* `let cleanup`: noop, or the number of the attach that returned it
    placements,      \* placements[k]: how often the cleanup of the k-th attach ran
    committed,       \* the values committed to open$ by the last handler, in order
    onOpenChange,    \* the last value handed to the caller's onOpenChange, or "none"
    disabledItems,   \* menu: the items of the overlay that carry data-disabled
    items,           \* menu: the `items` store, the key manager's ItemList
    activeItem,      \* menu: keyManager.activeItem, an item or NoItem
    focus,           \* menu: the element that holds input focus
    tasks,           \* menu: the continuations waiting behind `await tick()`, in order
    focusCalls,      \* menu: the elements the last handler called focus() on, in order
    prevented,       \* menu: the last handler called preventDefault() on its event
    lastEvent,       \* observer: the kind of the last handler that ran
    debounce,        \* observer: show() from closed, then hide() before the timer fired
    hover,           \* observer: the trigger hover cycle and the commits it produced
    hovered,         \* observer: the overlay is hovered while a hide was pending
    toggleRun,       \* observer: toggles since trigger and overlay were mounted, or -1
    lastInput,       \* observer: the input (event, key) the last handler ran for
    pointed,         \* observer: the target of the last input if a pointer-over, or -1
    arrowOpen        \* observer: an arrow key on the trigger opening a closed menu

vars == <<widget, trigger, overlayElement, open, showTimer, hideTimer,
          cleanup, placements, committed, onOpenChange, disabledItems, items,
          activeItem, focus, tasks, focusCalls, prevented, lastEvent, debounce,
          hover, hovered, toggleRun, lastInput, pointed, arrowOpen>>

----------------------------------------------------------------------------
(* Bounds of the exploration. *)

\* attach calls of the positioning collaborator in one behaviour
MaxAttach == 2
\* invocations of one attach's cleanup in one behaviour
MaxCleanupCalls == 2
\* menu items in the overlay
NItems == 2
\* continuations waiting behind `await tick()` at one time
MaxTasks == 2

(* Program constants. *)

\* tooltip.ts:16  openDelay = 1000
OpenDelay == 1000
\* tooltip.ts:42  the hide timer's interval
HideDelay == 500

\* the delays show(delay) is called with: focus (0), pointer-enter (openDelay),
\* and one more through the exported show(delay)
Delays == {0, OpenDelay, OpenDelay + HideDelay}

NULL == "null"
noop == 0
\* the key manager's "none" (index -1)
NoItem == -1
\* getMenuItems(overlay): the [role=menuitem] elements, in DOM order
MenuItems == [i \in 1..NItems |-> i]

Range(q) == {q[i] : i \in 1..Len(q)}

----------------------------------------------------------------------------
(* The program state as a record, and its write-back. *)

S == [widget |-> widget, trigger |-> trigger, overlayElement |-> overlayElement,
      open |-> open, showTimer |-> showTimer, hideTimer |-> hideTimer,
      cleanup |-> cleanup, placements |-> placements, committed |-> <<>>,
      onOpenChange |-> onOpenChange, items |-> items, activeItem |-> activeItem,
      focus |-> focus, tasks |-> tasks, focusCalls |-> <<>>,
      prevented |-> FALSE]

Apply(s) ==
    /\ widget' = s.widget
    /\ trigger' = s.trigger
    /\ overlayElement' = s.overlayElement
    /\ open' = s.open
    /\ showTimer' = s.showTimer
    /\ hideTimer' = s.hideTimer
    /\ cleanup' = s.cleanup
    /\ placements' = s.placements
    /\ committed' = s.committed
    /\ onOpenChange' = s.onOpenChange
    /\ items' = s.items
    /\ activeItem' = s.activeItem
    /\ focus' = s.focus
    /\ tasks' = s.tasks
    /\ focusCalls' = s.focusCalls
    /\ prevented' = s.prevented
    /\ disabledItems' = disabledItems

InBounds(s) ==
    /\ Len(s.tasks) <= MaxTasks
    /\ Len(s.placements) <= MaxAttach
    /\ \A k \in 1..Len(s.placements) : s.placements[k] <= MaxCleanupCalls

----------------------------------------------------------------------------
(* Collaborators (their code is outside the two source files). *)

\* createTimeout: start() makes the action pending (a pending one is not stacked)
TimerStart(t) == [t EXCEPT !.pending = TRUE]
\* createTimeout: stop() cancels a pending action; a no-op when none is pending
TimerStop(t) == [t EXCEPT !.pending = FALSE]
\* createTimeout: delay.set(ms) is read by the next start()
TimerSetDelay(t, ms) == [t EXCEPT !.delay = ms]

\* getPlacement(trigger, overlay, config): a new attachment, cleanup not yet run
getPlacement(s) == [s EXCEPT !.placements = Append(@, 0)]

\* cleanup(): runs the stored handle; the noop does nothing
callCleanup(s) ==
    IF s.cleanup = noop THEN s
    ELSE [s EXCEPT !.placements[s.cleanup] = @ + 1]

----------------------------------------------------------------------------
(* Tooltip: attachment lifecycle. *)

\* an init that drops the cleanup the collaborator returns
init_noStore(s) == getPlacement(callCleanup(s))

\* tooltip.ts:29-32
init(s) ==
    LET s1 == callCleanup(s)
        s2 == getPlacement(s1)
    IN  [s2 EXCEPT !.cleanup = Len(s2.placements)]

\* tooltip.ts:59-67  the subscriber of derived([open$, tooltipElement$])
tooltipSubscription(s) ==
    IF s.open /\ s.overlayElement # NULL THEN init(s) ELSE callCleanup(s)

----------------------------------------------------------------------------
(* Menu: the key manager's configuration and the attachment lifecycle. *)

FocusOn(el) == [el |-> el, i |-> 0]
FocusItem(item) == [el |-> "item", i |-> item]
InOverlay(f) == f.el \in {"overlay", "item"}

\* menu.ts:58  skipPredicate: (item) => 'disabled' in item.dataset
skipPredicate(item) == item \in disabledItems

\* menu.ts:60  onActivate: (item) => item.focus()  (a detached element takes no focus)
onActivate(s, item) ==
    LET s1 == [s EXCEPT !.focusCalls = Append(@, FocusItem(item))]
    IN  IF s.overlayElement # NULL THEN [s1 EXCEPT !.focus = FocusItem(item)] ELSE s1

\* listKeyManager: setActiveItem(-1) clears the active item, without onActivate
clearActiveItem(s) == [s EXCEPT !.activeItem = NoItem]

\* listKeyManager: setActiveItem(item) sets the active item directly
setActiveItem(s, item) ==
    IF item \in Range(s.items)
    THEN onActivate([s EXCEPT !.activeItem = item], item)
    ELSE clearActiveItem(s)

\* positions of the ItemList the navigation may stop at
EligibleAt(s) == {k \in 1..Len(s.items) : ~skipPredicate(s.items[k])}
ActiveAt(s) ==
    IF s.activeItem \in Range(s.items)
    THEN CHOOSE k \in 1..Len(s.items) : s.items[k] = s.activeItem
    ELSE 0
Min(ks) == CHOOSE k \in ks : \A j \in ks : k <= j
Max(ks) == CHOOSE k \in ks : \A j \in ks : k >= j

\* listKeyManager: setFirstItemActive()
setFirstItemActive(s) ==
    IF EligibleAt(s) = {} THEN s ELSE setActiveItem(s, s.items[Min(EligibleAt(s))])

\* listKeyManager: setLastItemActive()
setLastItemActive(s) ==
    IF EligibleAt(s) = {} THEN s ELSE setActiveItem(s, s.items[Max(EligibleAt(s))])

\* listKeyManager: one step forward, wrap: false (clamps at the end)
setNextItemActive(s) ==
    LET after == {k \in EligibleAt(s) : k > ActiveAt(s)}
    IN  IF after = {} THEN s ELSE setActiveItem(s, s.items[Min(after)])

\* listKeyManager: one step back, wrap: false (clamps at the start)
setPreviousItemActive(s) ==
    LET before == {k \in EligibleAt(s) : k < ActiveAt(s)}
    IN  IF before = {} THEN s ELSE setActiveItem(s, s.items[Max(before)])

\* menu.ts:77-83  (async, but without an await: it runs within the call)
setupPlacement(s) ==
    LET s1 == callCleanup(s)
        s2 == getPlacement(s1)
    IN  [s2 EXCEPT !.cleanup = Len(s2.placements)]

\* menu.ts:124-135  the subscriber of derived([open$, overlayElement$])
menuSubscription(s) ==
    IF s.open /\ s.overlayElement # NULL
    THEN [setupPlacement(s) EXCEPT !.items = MenuItems]
    ELSE callCleanup(clearActiveItem(s))

----------------------------------------------------------------------------
(* The open$ cell of both widgets. *)

\* a store of the derived pair changed: the trigger's subscriber runs, if subscribed
Notify(s) ==
    IF s.trigger # "mounted" THEN s
    ELSE IF s.widget = "tooltip" THEN tooltipSubscription(s)
    ELSE menuSubscription(s)

Enqueue(s, task) == [s EXCEPT !.tasks = Append(@, task)]

\* an effect that focuses the overlay within the commit, without the await
menuEffect_sync(s, isOpen) ==
    IF isOpen /\ s.overlayElement # NULL
    THEN [s EXCEPT !.focus = FocusOn("overlay"),
                   !.focusCalls = Append(@, FocusOn("overlay")),
                   !.onOpenChange = isOpen]
    ELSE [s EXCEPT !.onOpenChange = isOpen]

\* menu.ts:29-35  the part of the effect that runs within the commit
menuEffect(s, isOpen) ==
    IF isOpen THEN Enqueue(s, "focus") ELSE [s EXCEPT !.onOpenChange = isOpen]

\* menu.ts:32-34  the part of the effect behind `await tick()`
menuEffectResume(s) ==
    LET s1 == IF s.overlayElement # NULL
              THEN [s EXCEPT !.focus = FocusOn("overlay"),
                             !.focusCalls = Append(@, FocusOn("overlay"))]
              ELSE s
    IN  [s1 EXCEPT !.onOpenChange = TRUE]

\* tooltip.ts:22  writableEffect(open, onOpenChange)
tooltipEffect(s, isOpen) == [s EXCEPT !.onOpenChange = isOpen]

\* writableEffect(...).set: the commit, its effect, and the subscribers when the
\* value changed
openSet(s, v) ==
    LET s1 == [s EXCEPT !.open = v, !.committed = Append(@, v)]
        s2 == IF s.widget = "tooltip" THEN tooltipEffect(s1, v) ELSE menuEffect(s1, v)
    IN  IF v # s.open THEN Notify(s2) ELSE s2

----------------------------------------------------------------------------
(* Tooltip: show / hide / toggle and the timer callbacks. *)

\* a show that leaves a pending hide alone
show_noStop(s, delay) ==
    [s EXCEPT !.showTimer = TimerStart(TimerSetDelay(@, delay))]

\* tooltip.ts:97-101
show(s, delay) ==
    [s EXCEPT !.hideTimer = TimerStop(@),
              !.showTimer = TimerStart(TimerSetDelay(@, delay))]

\* a hide that leaves a pending show alone
hide_noStop(s) == [s EXCEPT !.hideTimer = TimerStart(@)]

\* a hide that closes at once instead of starting the hide timer
hide_immediate(s) == openSet([s EXCEPT !.showTimer = TimerStop(@)], FALSE)

\* tooltip.ts:102-105
hide(s) ==
    [s EXCEPT !.showTimer = TimerStop(@),
              !.hideTimer = TimerStart(@)]

\* a toggle that goes through the timers
toggle_viaTimers(s) == IF s.open THEN hide(s) ELSE show(s, 0)

\* tooltip.ts:106
toggle(s) == openSet(s, ~s.open)

\* tooltip.ts:38  the show timer fires: () => open$.set(true)
showTimerCallback(s) == openSet([s EXCEPT !.showTimer.pending = FALSE], TRUE)

\* tooltip.ts:40-46  the hide timer fires: () => open$.set(false)
hideTimerCallback(s) == openSet([s EXCEPT !.hideTimer.pending = FALSE], FALSE)

----------------------------------------------------------------------------
(* Tooltip: the two actions (mount) and their destroy. *)

\* tooltip.ts:50-67  listeners added; subscribe runs the subscriber once
useTooltipTrigger(s) == tooltipSubscription([s EXCEPT !.trigger = "mounted"])

\* tooltip.ts:70-75  cleanup(); removeEvents(); unsubscribe(); hide()
useTooltipTriggerDestroy(s) ==
    hide([callCleanup(s) EXCEPT !.trigger = "destroyed"])

\* tooltip.ts:79-86  tooltipElement$.set(element)
useTooltip(s) == Notify([s EXCEPT !.overlayElement = "el"])

\* tooltip.ts:89-93  tooltipElement$.set(null)
useTooltipDestroy(s) == Notify([s EXCEPT !.overlayElement = NULL])

----------------------------------------------------------------------------
(* Menu: hide / toggle, the handlers, the two actions and their destroy. *)

\* menu.ts:27  getTrigger(): the element that carries the trigger id, if in the document
getTrigger(s) == IF s.trigger = "mounted" THEN "trigger" ELSE NULL

\* a hide that returns the focus to the trigger whatever the reason
menuHide_returnAlways(s, returnFocus) ==
    LET s1 == openSet(s, FALSE)
    IN  IF getTrigger(s1) # NULL
        THEN [s1 EXCEPT !.focus = FocusOn("trigger"),
                        !.focusCalls = Append(@, FocusOn("trigger"))]
        ELSE s1

\* menu.ts:192-197
menuHide(s, returnFocus) ==
    LET s1 == openSet(s, FALSE)
    IN  IF returnFocus /\ getTrigger(s1) # NULL
        THEN [s1 EXCEPT !.focus = FocusOn("trigger"),
                        !.focusCalls = Append(@, FocusOn("trigger"))]
        ELSE s1

\* menu.ts:89,100,104  e.preventDefault()
preventDefault(s) == [s EXCEPT !.prevented = TRUE]

\* a toggle that only opens
menuToggle_open(s) == openSet(s, TRUE)

\* menu.ts:198-200
menuToggle(s) == openSet(s, ~s.open)

\* an arrow-open that activates from the wrong end
openMenuWithArrow_otherEnd(s, key) ==
    Enqueue(openSet(preventDefault(s), TRUE),
            IF key = "ArrowDown" THEN "setLast" ELSE "setFirst")

\* an arrow-open whose activation is queued ahead of the effect's focus
openMenuWithArrow_activateFirst(s, key) ==
    openSet(Enqueue(preventDefault(s), IF key = "ArrowDown" THEN "setFirst" ELSE "setLast"),
            TRUE)

\* menu.ts:88-93  up to the await; the rest waits behind tick()
openMenuWithArrow(s, key) ==
    Enqueue(openSet(preventDefault(s), TRUE),
            IF key = "ArrowDown" THEN "setFirst" ELSE "setLast")

\* menu.ts:95-117
triggerHandleKeyDown(s, key) ==
    CASE key \in {"Space", "Enter"}       -> menuToggle(preventDefault(s))
      [] key = "Escape"                   -> menuHide(preventDefault(s), FALSE)
      [] key = "Tab"                      -> menuHide(s, FALSE)
      [] key \in {"ArrowDown", "ArrowUp"} -> openMenuWithArrow(s, key)
      [] OTHER                            -> s

\* listKeyManager.onKeydown with menu.ts:53-59: vertical, homeAndEnd, no wrap,
\* tabOut: () => hide()
keyManagerOnKeydown(s, key) ==
    CASE key = "ArrowDown" -> setNextItemActive(s)
      [] key = "ArrowUp"   -> setPreviousItemActive(s)
      [] key = "Home"      -> setFirstItemActive(s)
      [] key = "End"       -> setLastItemActive(s)
      [] key = "Tab"       -> menuHide(s, FALSE)
      [] OTHER             -> s

\* menu.ts:161-168
menuHandleKeyDown(s, key) ==
    IF key = "Escape" THEN menuHide(s, TRUE) ELSE keyManagerOnKeydown(s, key)

\* a pointer-over that activates the item whether or not one is active
pointerover_always(s, target) ==
    IF target \in Range(MenuItems) THEN setActiveItem(s, target) ELSE s

\* menu.ts:172-179  target: an item, or 0 for an element that is no menu item
pointerover(s, target) ==
    IF s.activeItem # NoItem /\ target \in Range(MenuItems)
    THEN setActiveItem(s, target)
    ELSE s

\* a click-outside handler that does not look at the target
clickOutsideHandler_anyTarget(s, defaultPrevented, target) ==
    IF ~defaultPrevented THEN menuHide(s, FALSE) ELSE s

\* menu.ts:154-158  target: "trigger" or "outside"
clickOutsideHandler(s, defaultPrevented, target) ==
    IF ~defaultPrevented /\ target # "trigger" THEN menuHide(s, FALSE) ELSE s

\* menu.ts:87-135  listeners added; subscribe runs the subscriber once
useTrigger(s) == menuSubscription([s EXCEPT !.trigger = "mounted"])

\* a destroy that does not run the cleanup
useTriggerDestroy_noCleanup(s) ==
    menuHide([s EXCEPT !.trigger = "destroyed"], FALSE)

\* menu.ts:138-144  keyManager.destroy(); cleanup(); removeEvents(); unsubscribe(); hide()
useTriggerDestroy(s) ==
    menuHide([callCleanup(s) EXCEPT !.trigger = "destroyed"], FALSE)

\* menu.ts:148-150  overlayElement$.set(element)
useMenu(s) == Notify([s EXCEPT !.overlayElement = "el"])

\* menu.ts:183-188  overlayElement$.set(null); focus inside a removed overlay is lost
useMenuDestroy(s) ==
    Notify([s EXCEPT !.overlayElement = NULL,
                     !.focus = IF InOverlay(@) THEN FocusOn("body") ELSE @])

\* the continuation at the head of the queue runs
runTask(s) ==
    LET task == Head(s.tasks)
        s1 == [s EXCEPT !.tasks = Tail(@)]
    IN  CASE task = "focus"    -> menuEffectResume(s1)
          [] task = "setFirst" -> setFirstItemActive(s1)
          [] task = "setLast"  -> setLastItemActive(s1)

----------------------------------------------------------------------------
(* Observers: they read the program, the program never reads them. *)

ShowEvents == {"show"}
HideEvents == {"hide", "destroy"}
EnvEvents == {"mount", "mountoverlay", "unmountoverlay"}

\* "armed": show() was called on a closed tooltip; "cancelled": hide() followed
\* while the show timer had not fired, and no show/toggle came since
NextDebounce(ev) ==
    CASE ev \in ShowEvents -> IF ~open THEN "armed" ELSE "idle"
      [] ev \in HideEvents -> IF debounce \in {"armed", "cancelled"}
                              THEN "cancelled" ELSE "idle"
      [] ev = "toggle"     -> "idle"
      [] ev = "showfire"   -> IF debounce = "armed" THEN "idle" ELSE debounce
      [] OTHER             -> debounce

\* the hover cycle: 1 pointer-enter on a closed, quiet tooltip; 2 the show timer
\* fired; 3 pointer-leave; 4 the hide timer fired. log: the commits since 1.
NextHover(name, ev, s2) ==
    CASE name = "pointerenter" /\ ~open /\ ~showTimer.pending /\ ~hideTimer.pending
            -> [phase |-> 1, log |-> s2.committed]
      [] hover.phase = 1 /\ ev = "showfire"
            -> [phase |-> 2, log |-> hover.log \o s2.committed]
      [] hover.phase = 2 /\ name = "pointerleave"
            -> [phase |-> 3, log |-> hover.log \o s2.committed]
      [] hover.phase = 3 /\ ev = "hidefire"
            -> [phase |-> 4, log |-> hover.log \o s2.committed]
      [] hover.phase > 0 /\ ev \in EnvEvents \ {"mount"}
            -> [hover EXCEPT !.log = @ \o s2.committed]
      [] OTHER -> [phase |-> 0, log |-> <<>>]

\* overlay hover: 1 pointer-enter on the overlay while open with a hide pending,
\* no hide input since; 2 pointer-leave on the overlay; 3 the hide timer fired.
\* toggled: toggle() was called since 1.
NextHovered(name, ev) ==
    CASE name = "overlayenter" /\ open /\ hideTimer.pending
            -> [phase |-> 1, toggled |-> FALSE]
      [] hovered.phase = 1 /\ name = "overlayleave"
            -> [hovered EXCEPT !.phase = 2]
      [] hovered.phase = 1 /\ ev \in HideEvents
            -> [phase |-> 0, toggled |-> FALSE]
      [] hovered.phase = 1 /\ ev = "toggle"
            -> [hovered EXCEPT !.toggled = TRUE]
      [] hovered.phase = 1
            -> hovered
      [] hovered.phase = 2 /\ ev = "hidefire"
            -> [hovered EXCEPT !.phase = 3]
      [] hovered.phase = 2 /\ ev \in EnvEvents \ {"mount"}
            -> hovered
      [] OTHER -> [phase |-> 0, toggled |-> FALSE]

\* a run of toggles on a fresh widget: 0 once trigger and overlay are both mounted
\* (closed, nothing attached yet), one more with every toggle, -1 after any other
\* input; a continuation behind tick() belongs to the toggle that scheduled it
NextToggleRun(name, ev, s2) ==
    CASE ev \in {"mount", "mountoverlay"} ->
            IF /\ s2.trigger = "mounted" /\ s2.overlayElement # NULL
               /\ ~s2.open /\ s2.placements = <<>> /\ s2.tasks = <<>>
               /\ ~s2.showTimer.pending /\ ~s2.hideTimer.pending
            THEN 0 ELSE -1
      [] ev = "toggle" \/ name \in {"Space", "Enter"} ->
            IF toggleRun >= 0 THEN toggleRun + 1 ELSE -1
      [] ev = "task" -> toggleRun
      [] OTHER -> -1

\* arrow-open: 1 ArrowDown/ArrowUp on the trigger of a closed menu; 2 every
\* continuation waiting behind tick() has run, with the overlay mounted by then,
\* and no other input came in between; 0 otherwise
NextArrowOpen(name, ev, s2) ==
    CASE ev = "triggerkey" /\ name \in {"ArrowDown", "ArrowUp"} /\ ~open
            -> [phase |-> 1, key |-> name]
      [] arrowOpen.phase = 1 /\ ev = "mountoverlay"
            -> arrowOpen
      [] arrowOpen.phase = 1 /\ ev = "task"
            -> IF s2.tasks # <<>> THEN arrowOpen
               ELSE IF s2.overlayElement # NULL THEN [arrowOpen EXCEPT !.phase = 2]
               ELSE [phase |-> 0, key |-> "none"]
      [] OTHER -> [phase |-> 0, key |-> "none"]

\* one handler ran: name is the input, ev its kind, s2 the state it leaves
DoAt(name, ev, target, s2) ==
    /\ InBounds(s2)
    /\ Apply(s2)
    /\ lastEvent' = ev
    /\ debounce' = NextDebounce(ev)
    /\ hover' = NextHover(name, ev, s2)
    /\ hovered' = NextHovered(name, ev)
    /\ toggleRun' = NextToggleRun(name, ev, s2)
    /\ lastInput' = name
    /\ pointed' = target
    /\ arrowOpen' = NextArrowOpen(name, ev, s2)

Do(name, ev, s2) == DoAt(name, ev, -1, s2)

----------------------------------------------------------------------------
(* Tooltip actions. *)

IsTooltip == widget = "tooltip"
Listening == trigger = "mounted"
Alive == trigger # "destroyed"

\* tooltip.ts:50  use:useTooltipTrigger
MountTrigger == IsTooltip /\ trigger = "unmounted" /\ Do("mount", "mount", useTooltipTrigger(S))
\* tooltip.ts:70  the trigger action's destroy()
DestroyTrigger == IsTooltip /\ Listening /\ Do("destroy", "destroy", useTooltipTriggerDestroy(S))
\* tooltip.ts:79  use:useTooltip
MountOverlay == IsTooltip /\ overlayElement = NULL /\ Do("mountoverlay", "mountoverlay", useTooltip(S))
\* tooltip.ts:89  the overlay action's destroy()
UnmountOverlay == IsTooltip /\ overlayElement # NULL /\ Do("unmountoverlay", "unmountoverlay", useTooltipDestroy(S))

\* tooltip.ts:52
TriggerFocus == IsTooltip /\ Listening /\ Do("focus", "show", show(S, 0))
\* tooltip.ts:53
TriggerBlur == IsTooltip /\ Listening /\ Do("blur", "hide", hide(S))
\* tooltip.ts:54
TriggerPointerEnter == IsTooltip /\ Listening /\ Do("pointerenter", "show", show(S, OpenDelay))
\* tooltip.ts:55
TriggerPointerLeave == IsTooltip /\ Listening /\ Do("pointerleave", "hide", hide(S))
\* tooltip.ts:56
TriggerClick == IsTooltip /\ Listening /\ Do("click", "hide", hide(S))
\* tooltip.ts:84
OverlayPointerEnter == IsTooltip /\ overlayElement # NULL /\ Do("overlayenter", "show", show(S, 0))
\* tooltip.ts:85
OverlayPointerLeave == IsTooltip /\ overlayElement # NULL /\ Do("overlayleave", "hide", hide(S))

\* tooltip.ts:115-117  the exported show, hide, toggle (on a live instance)
ApiShow == IsTooltip /\ Alive /\ \E d \in Delays : Do("show", "show", show(S, d))
ApiHide == IsTooltip /\ Alive /\ Do("hide", "hide", hide(S))
ApiToggle == IsTooltip /\ Alive /\ Do("toggle", "toggle", toggle(S))

\* the scheduler runs a pending timer's callback
ShowTimerFire == IsTooltip /\ showTimer.pending /\ Do("showfire", "showfire", showTimerCallback(S))
HideTimerFire == IsTooltip /\ hideTimer.pending /\ Do("hidefire", "hidefire", hideTimerCallback(S))

----------------------------------------------------------------------------
(* Menu actions. *)

IsMenu == widget = "menu"
TriggerKeys == {"Space", "Enter", "Escape", "Tab", "ArrowDown", "ArrowUp"}
OverlayKeys == {"Escape", "ArrowDown", "ArrowUp", "Home", "End", "Tab"}

\* menu.ts:87  use:useTrigger
MenuMountTrigger == IsMenu /\ trigger = "unmounted" /\ Do("mount", "mount", useTrigger(S))
\* menu.ts:138  the trigger action's destroy()
MenuDestroyTrigger == IsMenu /\ Listening /\ Do("destroy", "destroy", useTriggerDestroy(S))
\* menu.ts:148  use:useMenu
MenuMountOverlay == IsMenu /\ overlayElement = NULL /\ Do("mountoverlay", "mountoverlay", useMenu(S))
\* menu.ts:183  the overlay action's destroy()
MenuUnmountOverlay == IsMenu /\ overlayElement # NULL /\ Do("unmountoverlay", "unmountoverlay", useMenuDestroy(S))

\* menu.ts:120  a click on the trigger; the click-outside handler sees it too
\* while the overlay is mounted and the menu open
MenuTriggerClick ==
    /\ IsMenu
    /\ Listening
    /\ Do("click", "toggle",
          menuToggle(IF overlayElement # NULL /\ open
                     THEN clickOutsideHandler(S, FALSE, "trigger")
                     ELSE S))
\* menu.ts:121
MenuTriggerKeyDown ==
    /\ IsMenu
    /\ Listening
    /\ \E key \in TriggerKeys : Do(key, "triggerkey", triggerHandleKeyDown(S, key))
\* menu.ts:171
MenuOverlayKeyDown ==
    /\ IsMenu
    /\ overlayElement # NULL
    /\ \E key \in OverlayKeys : Do(key, "overlaykey", menuHandleKeyDown(S, key))
\* menu.ts:54  typeahead: a printable key activates an item whose label matches
\* the buffer (never a skipped one), or nothing
MenuOverlayTypeahead ==
    /\ IsMenu
    /\ overlayElement # NULL
    /\ \E k \in EligibleAt(S) : Do("char", "overlaykey", setActiveItem(S, items[k]))
\* menu.ts:172
MenuPointerOver ==
    /\ IsMenu
    /\ overlayElement # NULL
    /\ \E target \in 0..NItems :
          DoAt("pointerover", "pointerover", target, pointerover(S, target))
\* menu.ts:152-159  useClickOutside, enabled while open
MenuClickOutside ==
    /\ IsMenu
    /\ overlayElement # NULL
    /\ open
    /\ \E handled \in BOOLEAN :
          Do(IF handled THEN "clickhandled" ELSE "clickoutside", "clickoutside",
             clickOutsideHandler(S, handled, "outside"))
\* the scheduler resumes the oldest continuation waiting behind tick()
MenuRunTask == IsMenu /\ tasks # <<>> /\ Do("task", "task", runTask(S))

----------------------------------------------------------------------------

Init ==
    /\ widget \in {"tooltip", "menu"}
    /\ trigger = "unmounted"
    /\ overlayElement = NULL
    /\ open \in BOOLEAN
    /\ showTimer = [pending |-> FALSE, delay |-> 0]
    /\ hideTimer = [pending |-> FALSE, delay |-> HideDelay]
    /\ cleanup = noop
    /\ placements = <<>>
    /\ committed = <<>>
    /\ onOpenChange = "none"
    /\ disabledItems \in (IF widget = "menu" THEN SUBSET (1..NItems) ELSE {{}})
    /\ items = <<>>
    /\ activeItem = NoItem
    /\ focus = FocusOn("body")
    /\ tasks = <<>>
    /\ focusCalls = <<>>
    /\ prevented = FALSE
    /\ lastEvent = "none"
    /\ debounce = "idle"
    /\ hover = [phase |-> 0, log |-> <<>>]
    /\ hovered = [phase |-> 0, toggled |-> FALSE]
    /\ toggleRun = -1
    /\ lastInput = "none"
    /\ pointed = -1
    /\ arrowOpen = [phase |-> 0, key |-> "none"]

Next ==
    \/ MountTrigger
    \/ DestroyTrigger
    \/ MountOverlay
    \/ UnmountOverlay
    \/ TriggerFocus
    \/ TriggerBlur
    \/ TriggerPointerEnter
    \/ TriggerPointerLeave
    \/ TriggerClick
    \/ OverlayPointerEnter
    \/ OverlayPointerLeave
    \/ ApiShow
    \/ ApiHide
    \/ ApiToggle
    \/ ShowTimerFire
    \/ HideTimerFire
    \/ MenuMountTrigger
    \/ MenuDestroyTrigger
    \/ MenuMountOverlay
    \/ MenuUnmountOverlay
    \/ MenuTriggerClick
    \/ MenuTriggerKeyDown
    \/ MenuOverlayKeyDown
    \/ MenuOverlayTypeahead
    \/ MenuPointerOver
    \/ MenuClickOutside
    \/ MenuRunTask

Spec == Init /\ [][Next]_vars

----------------------------------------------------------------------------
(* Tooltip claims. *)

NoTimerPending == ~showTimer.pending /\ ~hideTimer.pending

\* C1: on a closed tooltip, show(D) followed by hide() before the show timer
\* fired never commits OpenState to true (until a toggle or another show): once
\* the show is cancelled the show timer is not pending, no handler commits true
\* and the tooltip stays closed.
C1_Debounce ==
    (IsTooltip /\ debounce = "cancelled") =>
        /\ ~showTimer.pending
        /\ TRUE \notin Range(committed)
        /\ ~open

\* C1 witness: focus (D = 0), then a hide before the timer fired, and the hide
\* timer has since run: the tooltip is still closed.
C1_Witness ==
    /\ IsTooltip
    /\ debounce = "cancelled"
    /\ showTimer.delay = 0
    /\ lastEvent = "hidefire"

\* C2: the show timer and the hide timer are never pending together; right after
\* a show() the hide timer is not pending, right after a hide() the show timer
\* is not pending.
C2_TimerMutex ==
    IsTooltip =>
        /\ ~(showTimer.pending /\ hideTimer.pending)
        /\ (lastEvent \in ShowEvents => showTimer.pending /\ ~hideTimer.pending)
        /\ (lastEvent \in HideEvents => hideTimer.pending /\ ~showTimer.pending)

\* C2 witness: a show() (overlay pointer-enter) arrived while a hide was pending.
C2_Witness ==
    /\ IsTooltip
    /\ lastEvent = "show"
    /\ hovered.phase = 1
    /\ showTimer.pending

\* C3 (as claimed): once the trigger's destroy() has returned, neither timer is
\* pending.
C3_TeardownQuiet ==
    (IsTooltip /\ lastEvent = "destroy") => NoTimerPending

\* C8: pointer-enter on a closed, quiet tooltip, the show timer firing,
\* pointer-leave, the hide timer firing: exactly one commit of true, then exactly
\* one commit of false, and the tooltip ends closed with no timer pending.
C8_HoverCycle ==
    IsTooltip =>
        /\ hover.phase = 1 =>
              hover.log = <<>> /\ ~open /\ showTimer.pending /\ ~hideTimer.pending
        /\ hover.phase = 2 =>
              hover.log = <<TRUE>> /\ open /\ NoTimerPending
        /\ hover.phase = 3 =>
              hover.log = <<TRUE>> /\ open /\ hideTimer.pending /\ ~showTimer.pending
        /\ hover.phase = 4 =>
              hover.log = <<TRUE, FALSE>> /\ ~open /\ NoTimerPending

\* C8 witness: the whole cycle has run, with the pointer-enter delay.
C8_Witness ==
    /\ IsTooltip
    /\ hover.phase = 4
    /\ showTimer.delay = OpenDelay

\* C9 (as claimed): after pointer-enter on the overlay of an open tooltip with a
\* hide pending, the hide is cancelled and OpenState is not committed to false
\* until a later hide input.
C9_StaysOpenUntilHide ==
    (IsTooltip /\ hovered.phase = 1) =>
        /\ ~hideTimer.pending
        /\ FALSE \notin Range(committed)
        /\ open

\* C9 (amended): the same, until a later hide input or a toggle(); a subsequent
\* pointer-leave on the overlay starts the hide timer, and the tooltip is closed
\* once it has fired.
C9_OverlayHover ==
    (IsTooltip /\ ~hovered.toggled) =>
        /\ hovered.phase = 1 =>
              ~hideTimer.pending /\ FALSE \notin Range(committed) /\ open
        /\ hovered.phase = 2 =>
              hideTimer.pending /\ ~showTimer.pending /\ open
        /\ hovered.phase = 3 =>
              committed = <<FALSE>> /\ ~open /\ NoTimerPending

\* C9 witness: hovered, left, and the restarted hide timer has fired.
C9_Witness ==
    /\ IsTooltip
    /\ hovered.phase = 3
    /\ ~hovered.toggled

\* C10: toggle() commits the negation of OpenState within the call and leaves
\* both timers (pending or not, and their delays) as they were.
C10_ToggleFrame ==
    [][(IsTooltip /\ lastEvent' = "toggle") =>
          /\ open' = ~open
          /\ committed' = <<~open>>
          /\ showTimer' = showTimer
          /\ hideTimer' = hideTimer]_vars

\* C10 witness: a toggle closed the tooltip while the show timer was pending,
\* and it still is.
C10_Witness ==
    /\ IsTooltip
    /\ lastEvent = "toggle"
    /\ showTimer.pending
    /\ showTimer.delay = OpenDelay
    /\ ~open

----------------------------------------------------------------------------
(* Attachment claims (tooltip and menu). *)

Attached == 1..Len(placements)
Live == {k \in Attached : placements[k] = 0}
AllPresent == trigger = "mounted" /\ overlayElement # NULL /\ open

\* C4 (as claimed): with trigger and overlay mounted, n toggles make one attach
\* call per opening, no cleanup is invoked twice, and once the widget is closed
\* again every cleanup has been invoked exactly once.
C4_ExactlyOnce ==
    toggleRun >= 0 =>
        /\ Len(placements) = (toggleRun + 1) \div 2
        /\ \A k \in Attached : placements[k] <= 1
        /\ (~open => \A k \in Attached : placements[k] = 1)

\* C5 (as claimed): the stored cleanup handle is one the collaborator returned
\* only while that attachment is live; otherwise it is the no-op.
C5_NoopWhenDetached ==
    (trigger = "mounted" /\ cleanup # noop) => (cleanup \in Live /\ AllPresent)

\* C6: when the collaborator's attach is called for attachment N+1, the cleanup
\* of every earlier attachment has already been invoked, and two attachments are
\* never live together.
C6_AttachmentOrder ==
    [][/\ Len(placements') > Len(placements) =>
             \A k \in Attached : placements[k] >= 1
       /\ Cardinality({k \in 1..Len(placements') : placements'[k] = 0}) <= 1]_vars

\* C6 witness: a second attachment is live, after an unmount and re-mount of the
\* overlay of an open menu.
C6_Witness ==
    /\ IsMenu
    /\ Len(placements) = 2
    /\ Live = {2}
    /\ lastEvent = "mountoverlay"

\* C7: an attachment is live exactly when the trigger action is mounted, the
\* overlay element is present and OpenState is true; the live attachment is the
\* one whose cleanup the controller holds.
C7_LiveIffPresent ==
    /\ AllPresent <=> Live # {}
    /\ Live \subseteq {cleanup}

\* C7 witness: the trigger of an open tooltip with a mounted overlay was torn
\* down while its attachment was live.
C7_Witness ==
    /\ IsTooltip
    /\ trigger = "destroyed"
    /\ overlayElement # NULL
    /\ open
    /\ Len(placements) = 1
    /\ lastEvent = "destroy"

----------------------------------------------------------------------------
(* Menu: the active item. *)

\* C11: in every reachable state ActiveItem is none, or an item of the current
\* ItemList that the skip predicate does not skip -- the pointer-over listener
\* on a disabled item included.
C11_ActiveItemEligible ==
    IsMenu =>
        \/ activeItem = NoItem
        \/ activeItem \in Range(items) /\ ~skipPredicate(activeItem)

\* the items the skip predicate lets through, and the one an arrow key on the
\* trigger is to activate
Enabled == {i \in 1..NItems : i \notin disabledItems}
ArrowTarget(key) ==
    IF Enabled = {} THEN NoItem
    ELSE IF key = "ArrowDown" THEN CHOOSE i \in Enabled : \A j \in Enabled : i <= j
    ELSE CHOOSE i \in Enabled : \A j \in Enabled : i >= j

C12_WitnessAllDisabled ==
    /\ IsMenu
    /\ arrowOpen.phase = 2
    /\ Enabled = {}
    /\ activeItem = NoItem

----------------------------------------------------------------------------
(* Menu: closing, focus, toggling. *)

OverlayEscape == lastEvent = "overlaykey" /\ lastInput = "Escape"
ClosesQuietly ==
    \/ lastEvent = "triggerkey" /\ lastInput \in {"Escape", "Tab"}
    \/ lastEvent = "overlaykey" /\ lastInput = "Tab"
    \/ lastEvent = "clickoutside" /\ lastInput = "clickoutside"
    \/ lastEvent = "destroy"

\* C13: a close focuses the trigger (when the trigger element is there) iff it
\* came from Escape on the overlay; Escape or Tab on the trigger, Tab inside
\* the overlay (tabOut), a click outside and the trigger's teardown each commit
\* false and focus nothing; Tab on the trigger keeps its default action.
C13_FocusReturn ==
    IsMenu =>
        /\ FALSE \in Range(committed) =>
              (FocusOn("trigger") \in Range(focusCalls)
                  <=> OverlayEscape /\ trigger = "mounted")
        /\ (OverlayEscape /\ trigger = "mounted") =>
              committed = <<FALSE>> /\ focus = FocusOn("trigger")
        /\ ClosesQuietly => committed = <<FALSE>> /\ focusCalls = <<>>
        /\ (lastEvent = "triggerkey" /\ lastInput = "Tab") => ~prevented

\* C13 witness: Escape on the overlay of an open menu closed it and moved the
\* focus from inside the overlay to the trigger.
C13_Witness ==
    /\ IsMenu
    /\ OverlayEscape
    /\ committed = <<FALSE>>
    /\ onOpenChange = FALSE
    /\ focusCalls = <<FocusOn("trigger")>>
    /\ focus = FocusOn("trigger")

\* C13 witness, second case: Tab inside the overlay closed an open menu and the
\* focus stayed on the active item.
C13_WitnessTabOut ==
    /\ IsMenu
    /\ lastEvent = "overlaykey" /\ lastInput = "Tab"
    /\ committed = <<FALSE>>
    /\ focus.el = "item"

\* C14: a pointer-over on a menu item makes it the active item iff an item was
\* active just before; with none active, none stays active; a target that is
\* no menu item never changes ActiveItem.
C14_PointerOver ==
    [][(IsMenu /\ lastEvent' = "pointerover") =>
          activeItem' = IF activeItem # NoItem /\ pointed' \in 1..NItems
                        THEN pointed'
                        ELSE activeItem]_vars

\* C14 witness: with an item active, the pointer moved over another item, which
\* was activated and focused.
C14_Witness ==
    /\ IsMenu
    /\ lastEvent = "pointerover"
    /\ pointed \in 1..NItems
    /\ activeItem = pointed
    /\ focusCalls = <<FocusItem(pointed)>>

\* C14 witness, second case: the pointer moved over an item of an open menu
\* with its items listed and none active, and none is active.
C14_WitnessFirstHover ==
    /\ IsMenu
    /\ lastEvent = "pointerover"
    /\ pointed \in 1..NItems
    /\ open /\ items = MenuItems
    /\ activeItem = NoItem

CountOf(q, v) == Cardinality({k \in 1..Len(q) : q[k] = v})
Scheduled == SubSeq(tasks', Len(tasks) + 1, Len(tasks'))

\* C15: every commit of true schedules one focus of the overlay, which runs in
\* a later turn and never within the commit, and does nothing if no overlay is
\* there at that turn; a commit of false schedules none.
C15_DeferredFocus ==
    [][IsMenu =>
          /\ lastEvent' # "task" =>
                /\ Len(tasks') >= Len(tasks)
                /\ SubSeq(tasks', 1, Len(tasks)) = tasks
                /\ CountOf(Scheduled, "focus") = CountOf(committed', TRUE)
                /\ FocusOn("overlay") \notin Range(focusCalls')
          /\ (lastEvent' = "task" /\ tasks # <<>> /\ Head(tasks) = "focus") =>
                /\ tasks' = Tail(tasks)
                /\ committed' = <<>>
                /\ IF overlayElement = NULL
                   THEN focus' = focus /\ focusCalls' = <<>>
                   ELSE focus' = FocusOn("overlay")
                        /\ focusCalls' = <<FocusOn("overlay")>>]_vars

\* C15 witness: a deferred turn has focused the overlay of an open menu, after
\* the commit of true.
C15_Witness ==
    /\ IsMenu
    /\ lastEvent = "task"
    /\ open
    /\ onOpenChange = TRUE
    /\ focusCalls = <<FocusOn("overlay")>>
    /\ focus = FocusOn("overlay")

ToggleInput ==
    \/ lastEvent' = "toggle"
    \/ lastEvent' = "triggerkey" /\ lastInput' \in {"Space", "Enter"}

\* C16: a click, Enter or Space on the trigger commits the negation of
\* OpenState within the handler, with no timer involved; after two of them in
\* sequence OpenState is what it was.
C16_TriggerToggles ==
    [][(IsMenu /\ ToggleInput) =>
          /\ open' = ~open
          /\ committed' = <<~open>>
          /\ showTimer' = showTimer /\ hideTimer' = hideTimer
          /\ NoTimerPending
          /\ toggleRun' >= 0 => open' = (toggleRun' % 2 = 1)]_vars

\* C16 witness: two toggles on the trigger of a closed menu, the second by
\* Enter: open, then closed again.
C16_Witness ==
    /\ IsMenu
    /\ toggleRun = 2
    /\ lastInput = "Enter"
    /\ committed = <<FALSE>>
    /\ ~open
    /\ prevented

\* C17: while open, a click outside the overlay that nothing has handled and
\* whose target is not the trigger commits false and focuses nothing; a click
\* on the trigger is no outside click, so a trigger click while open makes
\* exactly one commit, of false, and the menu ends closed.
C17_ClickOutside ==
    [][IsMenu =>
          /\ (lastEvent' = "clickoutside" /\ lastInput' = "clickoutside") =>
                /\ open
                /\ committed' = <<FALSE>>
                /\ ~open'
                /\ focusCalls' = <<>> /\ focus' = focus
          /\ (lastEvent' = "clickoutside" /\ lastInput' = "clickhandled") =>
                committed' = <<>> /\ open' = open
          /\ (lastInput' = "click" /\ open) =>
                committed' = <<FALSE>> /\ ~open']_vars

\* C17 witness: a click on the trigger of an open menu whose overlay is mounted
\* (the click-outside listener is live) closed it, once.
C17_Witness ==
    /\ IsMenu
    /\ lastInput = "click"
    /\ overlayElement # NULL
    /\ committed = <<FALSE>>
    /\ ~open

\* C18: in every state with the trigger mounted and the menu closed
\* ActiveItem is none; stated for the case the claim names: a
\* deferred turn that runs with the menu closed, after an arrow key on the
\* trigger and a close, leaves ActiveItem none as it found it.
C18_NoActiveWhileClosed ==
    [][(/\ IsMenu
        /\ lastEvent' = "task"
        /\ trigger' = "mounted"
        /\ ~open'
        /\ activeItem = NoItem) =>
           activeItem' = NoItem]_vars

----------------------------------------------------------------------------
(* Menu: the deferred turns. *)

\* C19: on an arrow-open the deferred focus of the overlay is queued, and so
\* runs, before the deferred activation; once both have run the focus is on the
\* activated item (when an item is eligible), not on the overlay.
C19_FocusOrder ==
    IsMenu =>
        /\ (lastEvent = "triggerkey" /\ arrowOpen.phase = 1) =>
              /\ Len(tasks) >= 2
              /\ tasks[Len(tasks) - 1] = "focus"
              /\ tasks[Len(tasks)] \in {"setFirst", "setLast"}
        /\ (arrowOpen.phase = 2 /\ ArrowTarget(arrowOpen.key) # NoItem) =>
              focus = FocusItem(ArrowTarget(arrowOpen.key))

\* C19 witness: ArrowDown opened the menu with its overlay mounted, both
\* deferred turns have run, and the focus is on the first enabled item.
C19_Witness ==
    /\ IsMenu
    /\ arrowOpen.phase = 2
    /\ arrowOpen.key = "ArrowDown"
    /\ onOpenChange = TRUE
    /\ focus.el = "item"
    /\ focusCalls = <<focus>>

\* C20: onOpenChange receives the committed values in commit order -- an open
\* commit followed by a close commit in the same turn included -- so once every
\* deferred turn has run (the state the last of them leaves, on a live menu),
\* the last value delivered is the current OpenState.
C20_DeliveryOrder ==
    (IsMenu /\ trigger = "mounted" /\ lastEvent = "task" /\ tasks = <<>>) =>
        onOpenChange = open

====
